---- MODULE Spec2Model ----
(***************************************************************************)
(* Model of saskatoon/member/admin.py: the bulk actions of AuthUserAdmin   *)
(* (clear_groups, add_to_admin, add_to_core, add_to_pickleader,            *)
(* add_to_volunteer, add_to_owner, deactivate_account) and the account     *)
(* creation form CustomUserCreationForm.                                   *)
(*                                                                         *)
(* The persisted state is the AuthUser table (accounts), the user-group    *)
(* relation (membership) and the Group table (groupTable).  A request      *)
(* running an action holds the rows its queryset read when the for loop    *)
(* started; u.save() writes every flag of such a row back.  Every          *)
(* statement that reaches the database is one step, and may raise.         *)
(***************************************************************************)
EXTENDS Integers, Sequences, FiniteSets, TLC

VARIABLES accounts, membership, groupTable, req, pre, errors, nOps, form, user

vars == <<accounts, membership, groupTable, req, pre, errors, nOps, form, user>>

----
\* Bounds of the model.
MaxOps == 2
MaxErrors == 1
MaxPwLen == 2

\* Two accounts, numbered in the order of their email (ordering of the list).
Accounts == {1, 2}
Reqs == {1, 2}
GroupNames == {"admin", "core", "pickleader", "volunteer", "owner"}
Ops == {"clear_groups", "add_to_admin", "add_to_core", "add_to_pickleader",
        "add_to_volunteer", "add_to_owner", "deactivate_account"}
StaffOps == {"add_to_admin", "add_to_core", "add_to_pickleader"}

Flags == [is_active : BOOLEAN, is_staff : BOOLEAN, is_superuser : BOOLEAN]
NoGroups == [g \in GroupNames |-> 0]
NoPre == [accounts |-> <<>>, membership |-> <<>>, groupTable |-> <<>>]
IdleReq == [op |-> "none", status |-> "idle", sel |-> {}, todo |-> <<>>,
            pc |-> "none", prevOp |-> "none", prevSel |-> {}]

\* The group an add_to_* action passes to add_to_group.
GroupOf(op) ==
    CASE op = "add_to_admin" -> "admin"
      [] op = "add_to_core" -> "core"
      [] op = "add_to_pickleader" -> "pickleader"
      [] op = "add_to_volunteer" -> "volunteer"
      [] op = "add_to_owner" -> "owner"
      [] OTHER -> "none"

\* The first database statement of the loop body of each action.
FirstPc(op) ==
    CASE op = "clear_groups" -> "clear"
      [] op = "deactivate_account" -> "deactivate"
      [] OTHER -> "get_or_create"

\* user.groups as the display code reads it.
Groups(a) == {g \in GroupNames : membership[a][g] > 0}

\* The rows of the selected accounts, in the order of the list (by email).
First(sel) == CHOOSE a \in sel : \A b \in sel : a <= b
RECURSIVE queryset(_)
queryset(sel) ==
    IF sel = {} THEN <<>>
    ELSE LET a == First(sel)
         IN  <<[id |-> a,
                is_active |-> accounts[a].is_active,
                is_staff |-> accounts[a].is_staff,
                is_superuser |-> accounts[a].is_superuser]>> \o queryset(sel \ {a})

\* The row the loop variable u is bound to.
U(r) == Head(req[r].todo)

\* The end of one pass of the loop body: next row, or the action returns.
NextItem(r) ==
    IF Len(req[r].todo) > 1
    THEN [req EXCEPT ![r].todo = Tail(@), ![r].pc = FirstPc(req[r].op)]
    ELSE [req EXCEPT ![r].todo = <<>>, ![r].pc = "none", ![r].status = "done"]

----
\* The admin starts an action on a selection: the for loop reads the queryset.
StartAction(r, op, sel) ==
    /\ req[r].status # "running"
    /\ nOps < MaxOps
    /\ sel # {}
    /\ req' = [req EXCEPT ![r] =
                 [op |-> op, status |-> "running", sel |-> sel,
                  todo |-> queryset(sel), pc |-> FirstPc(op),
                  prevOp |-> IF req[r].status = "done" THEN req[r].op ELSE "none",
                  prevSel |-> IF req[r].status = "done" THEN req[r].sel ELSE {}]]
    /\ pre' = [pre EXCEPT ![r] = [accounts |-> accounts, membership |-> membership,
                                  groupTable |-> groupTable]]
    /\ nOps' = nOps + 1
    /\ UNCHANGED <<accounts, membership, groupTable, errors, form, user>>

\* clear_groups: u.groups.clear()
GroupsClear(r) ==
    /\ req[r].status = "running"
    /\ req[r].pc = "clear"
    /\ membership' = [membership EXCEPT ![U(r).id] = NoGroups]
    /\ req' = [req EXCEPT ![r].pc = "save"]
    /\ UNCHANGED <<accounts, groupTable, pre, errors, nOps, form, user>>

\* A create in place of get_or_create: a row is made at every call.
get_or_createAlways(table, name) == [table EXCEPT ![name] = @ + 1]

\* Group.objects.get_or_create(name=name): a row is made only when none has the name.
get_or_create(table, name) ==
    IF table[name] = 0 THEN [table EXCEPT ![name] = 1] ELSE table

\* add_to_group without the add: the group is looked up and nothing is related.
groups_addNothing(groups, name) == groups

\* user.groups.set([group]) in place of add: the other memberships are dropped.
groups_addReplacing(groups, name) == [g \in DOMAIN groups |-> IF g = name THEN 1 ELSE 0]

\* user.groups.add(group): the relation gets a row only when it has none for the pair.
groups_add(groups, name) ==
    IF groups[name] = 0 THEN [groups EXCEPT ![name] = 1] ELSE groups

\* add_to_group, first statement.
GetOrCreate(r) ==
    /\ req[r].status = "running"
    /\ req[r].pc = "get_or_create"
    /\ groupTable' = get_or_create(groupTable, GroupOf(req[r].op))
    /\ req' = [req EXCEPT ![r].pc = "add"]
    /\ UNCHANGED <<accounts, membership, pre, errors, nOps, form, user>>

\* add_to_group, second statement; volunteer and owner end the loop body here.
GroupsAdd(r) ==
    /\ req[r].status = "running"
    /\ req[r].pc = "add"
    /\ membership' = [membership EXCEPT
                        ![U(r).id] = groups_add(@, GroupOf(req[r].op))]
    /\ req' = IF req[r].op \in StaffOps
              THEN [req EXCEPT ![r].pc = "save"]
              ELSE NextItem(r)
    /\ UNCHANGED <<accounts, groupTable, pre, errors, nOps, form, user>>

\* clear_groups without "u.is_staff = False".
SavedFlagsStaffKept(op, u) ==
    CASE op = "clear_groups" ->
           [is_active |-> u.is_active, is_staff |-> u.is_staff, is_superuser |-> FALSE]
      [] op = "add_to_admin" ->
           [is_active |-> u.is_active, is_staff |-> TRUE, is_superuser |-> TRUE]
      [] op \in {"add_to_core", "add_to_pickleader"} ->
           [is_active |-> u.is_active, is_staff |-> TRUE, is_superuser |-> u.is_superuser]
      [] OTHER ->
           [is_active |-> u.is_active, is_staff |-> u.is_staff,
            is_superuser |-> u.is_superuser]

\* add_to_admin without "u.is_superuser = True".
SavedFlagsNoSuperuser(op, u) ==
    CASE op = "clear_groups" ->
           [is_active |-> u.is_active, is_staff |-> FALSE, is_superuser |-> FALSE]
      [] op \in StaffOps ->
           [is_active |-> u.is_active, is_staff |-> TRUE, is_superuser |-> u.is_superuser]
      [] OTHER ->
           [is_active |-> u.is_active, is_staff |-> u.is_staff,
            is_superuser |-> u.is_superuser]

\* The flags of u when u.save() runs, after the assignments each action makes.
SavedFlags(op, u) ==
    CASE op = "clear_groups" ->
           [is_active |-> u.is_active, is_staff |-> FALSE, is_superuser |-> FALSE]
      [] op = "add_to_admin" ->
           [is_active |-> u.is_active, is_staff |-> TRUE, is_superuser |-> TRUE]
      [] op \in {"add_to_core", "add_to_pickleader"} ->
           [is_active |-> u.is_active, is_staff |-> TRUE, is_superuser |-> u.is_superuser]
      [] OTHER ->
           [is_active |-> u.is_active, is_staff |-> u.is_staff,
            is_superuser |-> u.is_superuser]

\* u.save() of clear_groups and of add_to_staff: the whole row is written.
Save(r) ==
    /\ req[r].status = "running"
    /\ req[r].pc = "save"
    /\ accounts' = [accounts EXCEPT ![U(r).id] = SavedFlags(req[r].op, U(r))]
    /\ req' = NextItem(r)
    /\ UNCHANGED <<membership, groupTable, pre, errors, nOps, form, user>>

\* deactivate_account without the test.
DeactivatesAll(u) == TRUE

\* deactivate_account: the test on u.is_superuser.
Deactivates(u) == ~u.is_superuser

\* deactivate_account, loop body: the row is saved inactive, or skipped.
Deactivate(r) ==
    /\ req[r].status = "running"
    /\ req[r].pc = "deactivate"
    /\ accounts' = IF Deactivates(U(r))
                   THEN [accounts EXCEPT ![U(r).id] =
                           [is_active |-> FALSE, is_staff |-> U(r).is_staff,
                            is_superuser |-> U(r).is_superuser]]
                   ELSE accounts
    /\ req' = NextItem(r)
    /\ UNCHANGED <<membership, groupTable, pre, errors, nOps, form, user>>

\* The loop inside a transaction: a statement that raises undoes the action.
RaiseRolledBack(r) ==
    /\ req[r].status = "running"
    /\ errors < MaxErrors
    /\ req[r].pc = "deactivate" => Deactivates(U(r))
    /\ req' = [req EXCEPT ![r].status = "raised"]
    /\ errors' = errors + 1
    /\ accounts' = pre[r].accounts
    /\ membership' = pre[r].membership
    /\ groupTable' = pre[r].groupTable
    /\ UNCHANGED <<pre, nOps, form, user>>

\* A database statement raises: nothing catches it, the action ends there.
Raise(r) ==
    /\ req[r].status = "running"
    /\ errors < MaxErrors
    /\ req[r].pc = "deactivate" => Deactivates(U(r))
    /\ req' = [req EXCEPT ![r].status = "raised"]
    /\ errors' = errors + 1
    /\ UNCHANGED <<accounts, membership, groupTable, pre, nOps, form, user>>

Step(r) ==
    \/ \E op \in Ops, sel \in SUBSET Accounts : StartAction(r, op, sel)
    \/ GroupsClear(r)
    \/ GetOrCreate(r)
    \/ GroupsAdd(r)
    \/ Save(r)
    \/ Deactivate(r)
    \/ Raise(r)

----
\* CustomUserCreationForm.  A password is a string over a blank and two letters.
Chars == {" ", "a", "b"}
RECURSIVE Strings(_)
Strings(n) ==
    IF n = 0 THEN {<<>>}
    ELSE LET shorter == Strings(n - 1)
         IN  shorter \cup {Append(s, c) : s \in shorter, c \in Chars}
Passwords == Strings(MaxPwLen)

\* forms.CharField (strip left at its default): the value without the blanks
\* around it; an absent value is the empty string.
RECURSIVE StripLeft(_)
StripLeft(s) == IF s # <<>> /\ Head(s) = " " THEN StripLeft(Tail(s)) ELSE s
RECURSIVE StripRight(_)
StripRight(s) ==
    IF s # <<>> /\ s[Len(s)] = " " THEN StripRight(SubSeq(s, 1, Len(s) - 1)) ELSE s
to_python(s) == StripRight(StripLeft(s))

\* clean_password2: TRUE when it raises ValidationError("Passwords do not match.")
PasswordsDoNotMatch(password1, password2) ==
    password1 # <<>> /\ password2 # <<>> /\ password1 # password2

FormIdle == [password1 |-> <<>>, password2 |-> <<>>, state |-> "none",
             cleaned1 |-> <<>>, cleaned2 |-> <<>>]
NoUser == [made |-> FALSE, password |-> <<>>, persisted |-> FALSE]

\* The fields are cleaned in turn, password2 last by clean_password2.
CleanForm ==
    /\ form.state = "bound"
    /\ LET c1 == to_python(form.password1)
           c2 == to_python(form.password2)
       IN  form' = [form EXCEPT !.cleaned1 = c1, !.cleaned2 = c2,
                      !.state = IF PasswordsDoNotMatch(c1, c2)
                                THEN "invalid" ELSE "valid"]
    /\ UNCHANGED <<user, accounts, membership, groupTable, req, pre, errors, nOps>>

\* save(commit): set_password(cleaned_data["password1"]), then user.save() on commit.
SaveForm(commit) ==
    /\ form.state = "valid"
    /\ form' = [form EXCEPT !.state = "saved"]
    /\ user' = [made |-> TRUE, password |-> form.cleaned1, persisted |-> commit]
    /\ UNCHANGED <<accounts, membership, groupTable, req, pre, errors, nOps>>

----
\* The rows an account can be in before an action: the flags and the groups
\* are set independently on the change form.
Row(active, staff, super) ==
    [is_active |-> active, is_staff |-> staff, is_superuser |-> super]
InitRows ==
    {[flags |-> f, groups |-> {}] : f \in Flags}
    \cup {[flags |-> Row(TRUE, TRUE, TRUE), groups |-> {"admin", "volunteer"}],
          [flags |-> Row(TRUE, FALSE, FALSE), groups |-> {"admin", "volunteer"}],
          [flags |-> Row(TRUE, TRUE, FALSE), groups |-> {"core"}]}

InitRequests ==
    /\ req = [r \in Reqs |-> IdleReq]
    /\ pre = [r \in Reqs |-> NoPre]
    /\ errors = 0
    /\ nOps = 0

\* Group rows are unique by name; a membership is of a group that exists.
InitTables(rows) ==
    /\ accounts = [a \in Accounts |-> rows[a].flags]
    /\ membership = [a \in Accounts |->
                       [g \in GroupNames |-> IF g \in rows[a].groups THEN 1 ELSE 0]]
    /\ groupTable = [g \in GroupNames |->
                       IF \E a \in Accounts : g \in rows[a].groups THEN 1 ELSE 0]

Init ==
    /\ \E rows \in [Accounts -> InitRows] : InitTables(rows)
    /\ InitRequests
    /\ form = FormIdle
    /\ user = NoUser

\* One request at a time: the second one never starts.
Sequential == {1}
Next == \E r \in Sequential : Step(r)

Spec == Init /\ [][Next]_vars

\* The same, from accounts without groups, staff or superuser flag.
InitClean ==
    /\ accounts \in [Accounts -> {f \in Flags : ~f.is_staff /\ ~f.is_superuser}]
    /\ membership = [a \in Accounts |-> NoGroups]
    /\ \E n \in {0, 1} : groupTable = [g \in GroupNames |-> n]
    /\ InitRequests
    /\ form = FormIdle
    /\ user = NoUser

SpecClean == InitClean /\ [][Next]_vars

\* Two requests whose statements interleave, from a fresh account, an admin
\* or a core member in each place.
InitRaceRows ==
    {[flags |-> Row(TRUE, FALSE, FALSE), groups |-> {}],
     [flags |-> Row(TRUE, TRUE, TRUE), groups |-> {"admin", "volunteer"}],
     [flags |-> Row(TRUE, TRUE, FALSE), groups |-> {"core"}]}

InitRace ==
    /\ \E rows \in [Accounts -> InitRaceRows] : InitTables(rows)
    /\ InitRequests
    /\ form = FormIdle
    /\ user = NoUser

NextRace == \E r \in Reqs : Step(r)

SpecRace == InitRace /\ [][NextRace]_vars

\* A creation form bound to the two passwords entered.
InitForm ==
    /\ \E p1 \in Passwords, p2 \in Passwords :
         form = [FormIdle EXCEPT !.password1 = p1, !.password2 = p2, !.state = "bound"]
    /\ user = NoUser
    /\ InitTables([a \in Accounts |-> [flags |-> Row(TRUE, FALSE, FALSE), groups |-> {}]])
    /\ InitRequests

NextForm == CleanForm \/ \E commit \in BOOLEAN : SaveForm(commit)

SpecForm == InitForm /\ [][NextForm]_vars

----
\* Properties.  R is the request of the sequential specifications, P the
\* tables as they were when its action started.
R == req[1]
P == pre[1]
Done(op) == R.status = "done" /\ R.op = op
Remaining == {R.todo[i].id : i \in 1..Len(R.todo)}
Processed == R.sel \ Remaining

\* C1: after deactivate, a selected account that was a superuser keeps its
\* is_active, one that was not is inactive; is_superuser, is_staff and the
\* groups of both are as before.
C1_Deactivate ==
    Done("deactivate_account") =>
        \A a \in R.sel :
            /\ accounts[a].is_active =
                 (IF P.accounts[a].is_superuser THEN P.accounts[a].is_active ELSE FALSE)
            /\ accounts[a].is_superuser = P.accounts[a].is_superuser
            /\ accounts[a].is_staff = P.accounts[a].is_staff
            /\ membership[a] = P.membership[a]

C1_Witness ==
    /\ Done("deactivate_account")
    /\ R.sel = {1, 2}
    /\ P.accounts[1].is_superuser /\ P.accounts[1].is_active /\ accounts[1].is_active
    /\ ~P.accounts[2].is_superuser /\ P.accounts[2].is_active /\ ~accounts[2].is_active

\* C2: after clear_groups, every selected account is in no group and is
\* neither superuser nor staff, whatever it was; is_active is as before.
C2_ClearRoles ==
    Done("clear_groups") =>
        \A a \in R.sel :
            /\ Groups(a) = {}
            /\ ~accounts[a].is_superuser
            /\ ~accounts[a].is_staff
            /\ accounts[a].is_active = P.accounts[a].is_active

C2_Witness ==
    /\ Done("clear_groups")
    /\ \E a \in R.sel :
         /\ P.membership[a]["admin"] = 1 /\ P.membership[a]["volunteer"] = 1
         /\ P.accounts[a].is_superuser /\ P.accounts[a].is_staff
         /\ Groups(a) = {} /\ ~accounts[a].is_superuser /\ ~accounts[a].is_staff

\* C3: after add_to_admin, every selected account is a member of the group
\* "admin", which exists, and its saved flags are superuser and staff.
C3_PromoteToAdmin ==
    Done("add_to_admin") =>
        /\ groupTable["admin"] >= 1
        /\ \A a \in R.sel :
             /\ "admin" \in Groups(a)
             /\ accounts[a].is_superuser
             /\ accounts[a].is_staff

C3_Witness ==
    /\ Done("add_to_admin")
    /\ P.groupTable["admin"] = 0
    /\ \E a \in R.sel :
         /\ ~P.accounts[a].is_superuser /\ ~P.accounts[a].is_staff
         /\ "admin" \in Groups(a) /\ accounts[a].is_superuser /\ accounts[a].is_staff

\* C4: a request that raised on one account has processed every account
\* after it: only the failing account is left in its selection.
C4_PerItemIsolation ==
    R.status = "raised" => Len(R.todo) <= 1

\* C6: there is never more than one group "core" nor more than one
\* membership of an account in it, and add_to_core on accounts the previous
\* add_to_core already covered leaves every table as it was.
C6_PromoteToCoreIdempotent ==
    /\ groupTable["core"] <= 1
    /\ \A a \in Accounts : membership[a]["core"] <= 1
    /\ (Done("add_to_core") /\ R.prevOp = "add_to_core" /\ R.sel \subseteq R.prevSel) =>
         /\ accounts = P.accounts
         /\ membership = P.membership
         /\ groupTable = P.groupTable
         /\ groupTable["core"] = 1
         /\ \A a \in R.sel : membership[a]["core"] = 1

C6_Witness ==
    /\ Done("add_to_core") /\ R.prevOp = "add_to_core"
    /\ R.sel = {1} /\ R.prevSel = {1}
    /\ membership[1]["core"] = 1 /\ groupTable["core"] = 1
    /\ accounts[1].is_staff

\* C7: add_to_volunteer and add_to_owner change no flag of any account, add
\* the one group to the selected accounts and nothing else, and leave the
\* other accounts alone; a deactivate that follows add_to_volunteer makes a
\* non-superuser inactive, still a volunteer with its is_staff as before.
C7_VolunteerOwnerFrame ==
    /\ \A op \in {"add_to_volunteer", "add_to_owner"} :
         Done(op) =>
            /\ accounts = P.accounts
            /\ DOMAIN accounts = Accounts
            /\ \A a \in R.sel :
                 /\ Groups(a) = {g \in GroupNames : P.membership[a][g] > 0}
                                   \cup {GroupOf(op)}
                 /\ \A g \in GroupNames \ {GroupOf(op)} :
                      membership[a][g] = P.membership[a][g]
            /\ \A a \in Accounts \ R.sel : membership[a] = P.membership[a]
    /\ (Done("deactivate_account") /\ R.prevOp = "add_to_volunteer") =>
         \A a \in R.sel \cap R.prevSel :
            ~P.accounts[a].is_superuser =>
               /\ ~accounts[a].is_active
               /\ "volunteer" \in Groups(a)
               /\ accounts[a].is_staff = P.accounts[a].is_staff

C7_Witness ==
    /\ Done("deactivate_account") /\ R.prevOp = "add_to_volunteer"
    /\ 1 \in R.sel \cap R.prevSel
    /\ P.accounts[1] = Row(TRUE, FALSE, FALSE)
    /\ Groups(1) = {"volunteer"}
    /\ accounts[1] = Row(FALSE, FALSE, FALSE)

\* What an action has done to an account whose pass of the loop ended.
Applied(op, a) ==
    CASE op = "clear_groups" ->
           /\ Groups(a) = {}
           /\ accounts[a] = Row(P.accounts[a].is_active, FALSE, FALSE)
      [] op = "add_to_admin" ->
           /\ "admin" \in Groups(a)
           /\ accounts[a] = Row(P.accounts[a].is_active, TRUE, TRUE)
      [] op \in {"add_to_core", "add_to_pickleader"} ->
           /\ GroupOf(op) \in Groups(a)
           /\ accounts[a] = Row(P.accounts[a].is_active, TRUE, P.accounts[a].is_superuser)
      [] op \in {"add_to_volunteer", "add_to_owner"} ->
           /\ GroupOf(op) \in Groups(a)
           /\ accounts[a] = P.accounts[a]
      [] OTHER ->
           /\ membership[a] = P.membership[a]
           /\ accounts[a] = IF P.accounts[a].is_superuser THEN P.accounts[a]
                            ELSE [P.accounts[a] EXCEPT !.is_active = FALSE]

\* C8: when a statement raises, the request ends raised, the accounts
\* processed before keep what the action did to them, and the failing
\* account keeps what was written before the statement that raised (its
\* groups cleared, or the group made and the membership added, before save).
C8_NoRollback ==
    R.status = "raised" =>
        /\ R.todo # <<>>
        /\ \A a \in Processed : Applied(R.op, a)
        /\ LET u == Head(R.todo).id
           IN  /\ accounts[u] = P.accounts[u]
               /\ (R.pc = "save" /\ R.op = "clear_groups") => Groups(u) = {}
               /\ (R.pc = "save" /\ R.op \in StaffOps) =>
                     /\ membership[u][GroupOf(R.op)] = 1
                     /\ groupTable[GroupOf(R.op)] = 1
               /\ R.pc = "add" => groupTable[GroupOf(R.op)] = 1

C8_Witness ==
    /\ R.status = "raised" /\ R.op = "add_to_admin" /\ R.pc = "save"
    /\ R.sel = {1, 2} /\ Len(R.todo) = 1
    /\ ~P.accounts[1].is_superuser /\ accounts[1].is_superuser
    /\ P.membership[1]["admin"] = 0 /\ membership[1]["admin"] = 1
    /\ P.membership[2]["admin"] = 0 /\ membership[2]["admin"] = 1
    /\ ~accounts[2].is_superuser

\* C10: from accounts without groups or flags, when every action so far has
\* returned, an account is in "admin" exactly when it is a superuser, one in
\* "admin", "core" or "pickleader" is staff, and a staff account is in one
\* of the three.
StaffGroups == {"admin", "core", "pickleader"}
C10_FlagsFollowGroups ==
    (errors = 0 /\ R.status \in {"idle", "done"}) =>
        \A a \in Accounts :
            /\ ("admin" \in Groups(a)) <=> accounts[a].is_superuser
            /\ (Groups(a) \cap StaffGroups # {}) => accounts[a].is_staff
            /\ accounts[a].is_staff => (Groups(a) \cap StaffGroups # {})

C10_Witness ==
    /\ errors = 0 /\ R.status = "done" /\ nOps = 2
    /\ "admin" \in Groups(1) /\ accounts[1].is_superuser /\ accounts[1].is_staff
    /\ Groups(2) = {"core"} /\ accounts[2].is_staff /\ ~accounts[2].is_superuser

\* C5: when the two passwords entered differ (one of them may be empty), the
\* form is not valid, no user is made or saved and no password is set.
C5_MismatchRejected ==
    form.password1 # form.password2 =>
        /\ form.state \in {"bound", "invalid"}
        /\ user = NoUser

\* C9: with two requests interleaved, the save of deactivate_account never
\* makes an account inactive while its saved is_superuser is true, and the
\* superuser flag of an account of a finished add_to_admin is taken away by
\* clear_groups only, never by the save of a row read earlier.
DeactivateWrites(r) ==
    /\ req[r].status = "running"
    /\ req[r].pc = "deactivate"
    /\ Deactivates(U(r))
    /\ req'[r] # req[r]
    /\ req'[r].status # "raised"

C9_ProtectionUnderRace ==
    [][/\ \A r \in Reqs :
            DeactivateWrites(r) => ~accounts[U(r).id].is_superuser
       /\ \A r \in Reqs : \A a \in Accounts :
            (/\ req[r].op = "add_to_admin" /\ req[r].status = "done"
             /\ a \in req[r].sel
             /\ accounts[a].is_superuser /\ ~accounts'[a].is_superuser)
            => \E r2 \in Reqs : req[r2].op = "clear_groups" /\ req'[r2] # req[r2]
      ]_vars

====
